---- MODULE Spec2Model ----
(***************************************************************************)
(* InputValidator (src/src/InputValidator.ts) and the error map of the     *)
(* enclosing AuthForm (src/src/AuthForm/AuthForm.tsx).                      *)
(*                                                                         *)
(* Every field of the form has one InputValidator bound to its <input>.    *)
(* A string is a sequence of one-character strings.  A JavaScript value    *)
(* that may or may not be a string is a record with a typ field.           *)
(***************************************************************************)
EXTENDS Integers, Sequences, FiniteSets, TLC

VARIABLES
    input,            \* this.input of each field's validator
    validatorRules,   \* this.validatorRules
    validatorHandlers,\* this.validatorHandlers
    validatorSettings,\* this.validatorSettings
    errors,           \* this.errors
    formErrors,       \* AuthForm's `errors` state, keyed by input.name
    last              \* the last call made, its outcome and its callbacks

vars == <<input, validatorRules, validatorHandlers, validatorSettings, errors, formErrors, last>>

----------------------------------------------------------------------------
(* Bounds *)

MaxErrors == 2        \* longest error list explored
MaxBound == 2         \* largest min / max / exact of a hasLength rule

----------------------------------------------------------------------------
(* Values *)

Str(s) == [typ |-> "string", str |-> s]
NotAString == [typ |-> "undefined", str |-> <<>>]

Strings ==
    { <<>>,
      <<"a", "1">>,
      <<"a", "B", "c">>,
      <<"a", "@", "b", ".", "c">> }

InputValues == {Str(s) : s \in Strings} \cup {NotAString}

Null == [typ |-> "null"]
Element(v, m) == [typ |-> "element", value |-> v, isValid |-> m]

FieldNames == {"username", "email"}

Languages == {"EN", "RU"}

----------------------------------------------------------------------------
(* Error messages *)

Message(tmpl, lang, n, name) == [tmpl |-> tmpl, lang |-> lang, n |-> n, name |-> name]

NoMessage == Message("", "", 0, "")

\* errorTextMessages.hasLength.min(minLength)[currentLanguage]
TooShortMessage(minLength, lang) ==
    Message("Should be more than or equal to ${minLength} symbols", lang, minLength, "")

TooLongMessage(maxLength) ==
    Message("Should be no more than ${max} symbols", "EN", maxLength, "")

ExactMessage(exactLength) ==
    Message("Should be exactly ${exact} symbols", "EN", exactLength, "")

AlphaMessage == Message("Should contain only alphabetic letters", "EN", 0, "")

EmailMessage == Message("Incorrect email address", "EN", 0, "")

\* errorMessage || `${checkName} check failed`
CustomMessage(checkName, errorMessage) ==
    IF errorMessage # NoMessage
    THEN errorMessage
    ELSE Message("${checkName} check failed", "", 0, checkName)

----------------------------------------------------------------------------
(* Rule sets *)

LengthRule(mn, mx, ex) == [set |-> TRUE, min |-> mn, max |-> mx, exact |-> ex]

\* hasLength: false.  Reading .min, .max or .exact of it gives undefined, which
\* compares like 0 here: L < undefined is false, !!+undefined is false.
NoLengthRule == [set |-> FALSE, min |-> 0, max |-> 0, exact |-> 0]

\* a bound of a hasLength rule is unset (0) or MaxBound
LengthBounds == {0, MaxBound}

LengthRules ==
    {LengthRule(mn, mx, ex) : mn \in LengthBounds, mx \in LengthBounds, ex \in LengthBounds}
        \cup {NoLengthRule}

\* this.validatorRules before the constructor merges its argument in
DefaultRules == [hasLength |-> LengthRule(0, 0, 0), isAlpha |-> FALSE, isEmail |-> FALSE]

\* The rule sets a validator is constructed with: the defaults with the
\* hasLength rule replaced, or with isAlpha and isEmail replaced, and the
\* rule set with every rule on.
RuleSets ==
    {[DefaultRules EXCEPT !.hasLength = r] : r \in LengthRules}
        \cup {[DefaultRules EXCEPT !.isAlpha = a, !.isEmail = e] : a, e \in BOOLEAN}
        \cup {[hasLength |-> LengthRule(MaxBound, MaxBound, MaxBound),
                isAlpha |-> TRUE, isEmail |-> TRUE]}

\* The rule sets the fields of a form are given.
FormRuleSets ==
    { [hasLength |-> LengthRule(2, 0, 0), isAlpha |-> TRUE, isEmail |-> FALSE],
      [hasLength |-> NoLengthRule, isAlpha |-> FALSE, isEmail |-> TRUE] }

\* Object.entries(this.validatorRules): the keys in insertion order
RuleOrder == <<"hasLength", "isAlpha", "isEmail">>

\* if (!methodValue) return;
Truthy(rules, methodName) ==
    CASE methodName = "hasLength" -> rules.hasLength.set
      [] methodName = "isAlpha" -> rules.isAlpha
      [] methodName = "isEmail" -> rules.isEmail

----------------------------------------------------------------------------
(* Regular expressions *)

Letters == {"a", "b", "c", "A", "B", "C"}
Whitespace == {" "}

\* /^[a-z]*$/gi
MatchesAlpha(s) == \A i \in 1..Len(s) : s[i] \in Letters

\* [^\s@]+ over s[from..to]
NoSpaceNoAt(s, from, to) ==
    /\ from <= to
    /\ \A i \in from..to : s[i] \notin Whitespace /\ s[i] # "@"

\* /^[^\s@]+@[^\s@]+\.[^\s@]+$/
MatchesEmail(s) ==
    \E i \in 1..Len(s) : \E j \in 1..Len(s) :
        /\ s[i] = "@"
        /\ s[j] = "."
        /\ NoSpaceNoAt(s, 1, i - 1)
        /\ NoSpaceNoAt(s, i + 1, j - 1)
        /\ NoSpaceNoAt(s, j + 1, Len(s))

----------------------------------------------------------------------------
(* The error list.  this.errors is an array object: push changes it in     *)
(* place, filter makes a new array.  While a call runs,                     *)
(*   cur  is the content of this.errors,                                    *)
(*   old  is the content of the array this.errors was when the call began,  *)
(*   repl says this.errors has been assigned a new array since then.        *)

ErrorEntry(checkName, message) == [checkName |-> checkName, message |-> message]

Start(errs) == [cur |-> errs, old |-> errs, repl |-> FALSE]

\* this.errors.push({ checkName, message })
AddError(h, checkName, message) ==
    [cur |-> Append(h.cur, ErrorEntry(checkName, message)),
     old |-> IF h.repl THEN h.old ELSE Append(h.old, ErrorEntry(checkName, message)),
     repl |-> h.repl]

\* A _validateCheck that empties the list instead of filtering it.
ValidateCheckAll(h, checkName) == [cur |-> <<>>, old |-> h.old, repl |-> TRUE]

\* this.errors = this.errors.filter((error) => error.checkName !== checkName)
ValidateCheck(h, checkName) ==
    [cur |-> SelectSeq(h.cur, LAMBDA e : e.checkName # checkName),
     old |-> h.old,
     repl |-> TRUE]

\* A guard that tests only !this.input.
InvalidUsageNullOnly(inp) == inp.typ = "null"

\* !this.input || typeof this.input.value !== 'string'
InvalidUsage(inp) == inp.typ = "null" \/ inp.value.typ # "string"

\* the body of hasLength() after its guard
hasLength(h, value, rules, settings) ==
    LET L == Len(value)
        r == rules.hasLength
    IN  IF L < r.min
        THEN AddError(h, "hasLength", TooShortMessage(r.min, settings.currentLanguage))
        ELSE IF r.max # 0 /\ L > r.max
        THEN AddError(h, "hasLength", TooLongMessage(r.max))
        ELSE IF r.exact # 0 /\ L # r.exact
        THEN AddError(h, "hasLength", ExactMessage(r.exact))
        ELSE ValidateCheck(h, "hasLength")

\* the body of isAlpha() after its guard
isAlpha(h, value) ==
    IF ~MatchesAlpha(value)
    THEN AddError(h, "isAlpha", AlphaMessage)
    ELSE ValidateCheck(h, "isAlpha")

\* the body of isEmail() after its guard
isEmail(h, value) ==
    IF ~MatchesEmail(value)
    THEN AddError(h, "isEmail", EmailMessage)
    ELSE ValidateCheck(h, "isEmail")

\* the body of customCheck() after its two guards; fnResult is what fn returned
customCheck(h, fnResult, checkName, errorMessage) ==
    IF fnResult # "true"
    THEN AddError(h, checkName, CustomMessage(checkName, errorMessage))
    ELSE ValidateCheck(h, checkName)

\* this[methodName]()
CallRule(h, methodName, value, rules, settings) ==
    CASE methodName = "hasLength" -> hasLength(h, value, rules, settings)
      [] methodName = "isAlpha" -> isAlpha(h, value)
      [] methodName = "isEmail" -> isEmail(h, value)

\* Object.keys(this): the own properties of the validator, an array
ObjectKeys == <<"input", "validatorRules", "validatorHandlers", "validatorSettings", "errors">>

IndexNames == <<"0", "1", "2", "3", "4", "5", "6", "7">>

\* The property names of an array that a key of the rule set could equal: its
\* indices and length (no name of Array.prototype is the name of a rule).
ArrayProperties(arr) == {IndexNames[i] : i \in 1..Len(arr)} \cup {"length"}

\* A dispatch that looks the rule's name up among the validator's methods.
InMethods(methodName) == methodName \in {"hasLength", "isAlpha", "isEmail", "customCheck", "validate"}

\* methodName in Object.keys(this)
InObjectKeys(methodName) == methodName \in ArrayProperties(ObjectKeys)

\* the forEach of validate(): the rules from position i on
RECURSIVE RunRules(_, _, _, _, _)
RunRules(h, i, value, rules, settings) ==
    IF i > Len(RuleOrder)
    THEN h
    ELSE LET methodName == RuleOrder[i]
             next == IF Truthy(rules, methodName) /\ InObjectKeys(methodName)
                     THEN CallRule(h, methodName, value, rules, settings)
                     ELSE h
         IN  RunRules(next, i + 1, value, rules, settings)

\* get isValid()
isValid(errs) == Len(errs) = 0

\* A marker with the two branches exchanged.
MarkerInverted(errs) == IF Len(errs) # 0 THEN "Valid" ELSE "Invalid"

\* this.errors.length ? 'Invalid' : 'Valid'
Marker(errs) == IF Len(errs) # 0 THEN "Invalid" ELSE "Valid"

----------------------------------------------------------------------------
(* The form's error map.  An entry holds the array it was given, not a     *)
(* copy: shared says that array is still the this.errors of the field's     *)
(* validator, so that a push on the validator shows in the entry.           *)

NoEntry == [present |-> FALSE, shared |-> FALSE, list |-> <<>>]

\* An updater that does not spread prevErrors.
setErrorsNoSpread(prevErrors, name, errs) ==
    [n \in DOMAIN prevErrors |->
        IF n = name THEN [present |-> TRUE, shared |-> TRUE, list |-> errs] ELSE NoEntry]

\* setErrors((prevErrors) => ({ ...prevErrors, [input.name]: errors }))
setErrors(prevErrors, name, errs) ==
    [prevErrors EXCEPT ![name] = [present |-> TRUE, shared |-> TRUE, list |-> errs]]

\* this.validatorHandlers.onValidationFinish(this.errors): the handler is the
\* constructor's default, which does nothing, or the one initValidator passes
onValidationFinish(handler, prevErrors, name, errs) ==
    IF handler = "form" THEN setErrors(prevErrors, name, errs) ELSE prevErrors

\* What a call that left the heap h does to the entry sharing the array.
AfterCall(map, f, h) ==
    IF map[f].shared
    THEN [map EXCEPT ![f] = [present |-> TRUE, shared |-> ~h.repl, list |-> h.old]]
    ELSE map

\* The record of a call: the method, the field whose validator it was called
\* on, the arguments of customCheck, whether it threw, the arguments of the finish callbacks it made, and
\* whether it is a validate() that directly follows a validate() that returned.
NoArgs == [fn |-> "", name |-> "", message |-> NoMessage]

Call(op, f, args, threw, calls, again) ==
    [op |-> op, field |-> f, args |-> args, threw |-> threw, calls |-> calls,
     again |-> again]

\* throw new Error(...): nothing is written
Throw(op, f, args) ==
    /\ last' = Call(op, f, args, TRUE, <<>>, FALSE)
    /\ UNCHANGED <<input, validatorRules, validatorHandlers, validatorSettings, errors, formErrors>>

\* a check method returns, leaving the heap h
Return(op, f, args, h) ==
    /\ Len(h.cur) <= MaxErrors
    /\ errors' = [errors EXCEPT ![f] = h.cur]
    /\ formErrors' = AfterCall(formErrors, f, h)
    /\ last' = Call(op, f, args, FALSE, <<>>, FALSE)
    /\ UNCHANGED <<input, validatorRules, validatorHandlers, validatorSettings>>

----------------------------------------------------------------------------
(* Operations *)

Fields == DOMAIN input

\* the user types, or the caller assigns input.value
SetValue(f, v) ==
    /\ input[f].typ = "element"
    /\ input[f].value # v
    /\ input' = [input EXCEPT ![f].value = v]
    /\ last' = Call("setValue", f, NoArgs, FALSE, <<>>, FALSE)
    /\ UNCHANGED <<validatorRules, validatorHandlers, validatorSettings, errors, formErrors>>

HasLength(f) ==
    IF InvalidUsage(input[f])
    THEN Throw("hasLength", f, NoArgs)
    ELSE Return("hasLength", f, NoArgs,
                hasLength(Start(errors[f]), input[f].value.str,
                          validatorRules[f], validatorSettings[f]))

IsAlpha(f) ==
    IF InvalidUsage(input[f])
    THEN Throw("isAlpha", f, NoArgs)
    ELSE Return("isAlpha", f, NoArgs, isAlpha(Start(errors[f]), input[f].value.str))

IsEmail(f) ==
    IF InvalidUsage(input[f])
    THEN Throw("isEmail", f, NoArgs)
    ELSE Return("isEmail", f, NoArgs, isEmail(Start(errors[f]), input[f].value.str))

CustomArgs(fnResult, checkName, errorMessage) ==
    [fn |-> fnResult, name |-> checkName, message |-> errorMessage]

CustomCheck(f, fnResult, checkName, errorMessage) ==
    IF InvalidUsage(input[f])
    THEN Throw("customCheck", f, CustomArgs(fnResult, checkName, errorMessage))
    ELSE IF checkName = ""
    THEN Throw("customCheck", f, CustomArgs(fnResult, checkName, errorMessage))
    ELSE Return("customCheck", f, CustomArgs(fnResult, checkName, errorMessage),
                customCheck(Start(errors[f]), fnResult, checkName, errorMessage))

\* A validate() that passes the callback only the entries it appended.
DeliveredChanges(before, h) == <<SubSeq(h.cur, Len(before) + 1, Len(h.cur))>>

\* this.validatorHandlers.onValidationFinish(this.errors): the arguments of
\* the callbacks validate() makes, before being the list when it began
Delivered(before, h) == <<h.cur>>

Validate(f) ==
    IF InvalidUsage(input[f])
    THEN Throw("validate", f, NoArgs)
    ELSE LET h == RunRules(Start(errors[f]), 1, input[f].value.str,
                           validatorRules[f], validatorSettings[f])
         IN  /\ Len(h.cur) <= MaxErrors
             /\ errors' = [errors EXCEPT ![f] = h.cur]
             /\ input' = [input EXCEPT ![f].isValid = Marker(h.cur)]
             /\ formErrors' = onValidationFinish(validatorHandlers[f],
                                                 AfterCall(formErrors, f, h), f, h.cur)
             /\ last' = Call("validate", f, NoArgs, FALSE,
                             Delivered(errors[f], h),
                             last.op = "validate" /\ last.field = f /\ ~last.threw)
             /\ UNCHANGED <<validatorRules, validatorHandlers, validatorSettings>>

\* AuthForm.initValidator: a field whose rules changed gets a new validator
InitValidator(f, rules) ==
    /\ input[f].typ = "element"
    /\ validatorRules[f] # rules
    /\ validatorRules' = [validatorRules EXCEPT ![f] = rules]
    /\ errors' = [errors EXCEPT ![f] = <<>>]
    /\ formErrors' = [formErrors EXCEPT ![f].shared = FALSE]
    /\ last' = Call("initValidator", f, NoArgs, FALSE, <<>>, FALSE)
    /\ UNCHANGED <<input, validatorHandlers, validatorSettings>>

FnResults == {"true", "false", "1"}
CheckNames == {"", "unique"}
ErrorMessages == {NoMessage, Message("taken", "", 0, "")}

----------------------------------------------------------------------------
(* One validator, constructed with any input, rule set and language *)

Init ==
    /\ input \in [{"username"} ->
                    {Null} \cup {Element(v, "unset") : v \in InputValues}]
    /\ validatorRules \in [{"username"} -> RuleSets]
    /\ validatorHandlers = [f \in {"username"} |-> "default"]
    /\ validatorSettings \in [{"username"} -> [currentLanguage : Languages]]
    /\ errors = [f \in {"username"} |-> <<>>]
    /\ formErrors = [n \in FieldNames |-> NoEntry]
    /\ last = Call("constructor", "username", NoArgs, FALSE, <<>>, FALSE)

Next ==
    \/ \E f \in Fields, v \in InputValues : SetValue(f, v)
    \/ \E f \in Fields : HasLength(f)
    \/ \E f \in Fields : IsAlpha(f)
    \/ \E f \in Fields : IsEmail(f)
    \/ \E f \in Fields, r \in FnResults, n \in CheckNames, m \in ErrorMessages :
           CustomCheck(f, r, n, m)
    \/ \E f \in Fields : Validate(f)

Spec == Init /\ [][Next]_vars

----------------------------------------------------------------------------
(* A form of two fields, each with the validator initValidator gave it *)

InitForm ==
    /\ input = [f \in FieldNames |-> Element(Str(<<>>), "unset")]
    /\ validatorRules \in [FieldNames -> FormRuleSets]
    /\ validatorHandlers = [f \in FieldNames |-> "form"]
    /\ validatorSettings = [f \in FieldNames |-> [currentLanguage |-> "EN"]]
    /\ errors = [f \in FieldNames |-> <<>>]
    /\ formErrors = [n \in FieldNames |-> NoEntry]
    /\ last = Call("initValidator", "username", NoArgs, FALSE, <<>>, FALSE)

FormValues == {Str(<<>>), Str(<<"a", "1">>)}

NextForm ==
    \/ \E f \in Fields, v \in FormValues : SetValue(f, v)
    \/ \E f \in Fields, rules \in FormRuleSets : InitValidator(f, rules)
    \/ \E f \in Fields : IsAlpha(f)
    \/ \E f \in Fields : Validate(f)

SpecForm == InitForm /\ [][NextForm]_vars

----------------------------------------------------------------------------
(* Properties *)

BuiltIn == {"hasLength", "isAlpha", "isEmail"}

CheckMethods == BuiltIn \cup {"customCheck", "validate"}

CheckNamesOf(errs) == {errs[i].checkName : i \in 1..Len(errs)}

EntriesOf(errs, checkName) == {i \in 1..Len(errs) : errs[i].checkName = checkName}

\* the value of field f fails the condition of the built-in rule
Fails(f, methodName) ==
    LET s == input[f].value.str
        r == validatorRules[f].hasLength
    IN  CASE methodName = "hasLength" ->
                 \/ Len(s) < r.min
                 \/ r.max # 0 /\ Len(s) > r.max
                 \/ r.exact # 0 /\ Len(s) # r.exact
          [] methodName = "isAlpha" -> ~MatchesAlpha(s)
          [] methodName = "isEmail" -> ~MatchesEmail(s)

EnabledRules(f) == {m \in BuiltIn : Truthy(validatorRules[f], m)}

Returned(op) == last.op = op /\ ~last.threw

\* C1: in every reachable state the error list of a validator holds at most
\* one entry per checkName.
C1_AtMostOnePerCheck ==
    \A f \in Fields : \A i, j \in 1..Len(errors[f]) :
        i # j => errors[f][i].checkName # errors[f][j].checkName

\* C2: after validate() returns, the error list holds an entry for each
\* enabled built-in rule the value fails and none for an enabled rule the
\* value satisfies.
C2_ValidateRunsEnabledRules ==
    Returned("validate") =>
        \A m \in EnabledRules(last.field) :
            Fails(last.field, m) <=> m \in CheckNamesOf(errors[last.field])

\* C3: a validate() that directly follows a validate() of the same validator
\* that returned, with no change of the value in between, leaves the error
\* list as the first left it.
C3_ValidateIdempotent ==
    [][(Returned("validate") /\ last'.op = "validate" /\ ~last'.threw
            /\ last'.field = last.field)
        => errors'[last.field] = errors[last.field]]_vars

C3_Witness ==
    /\ Returned("validate")
    /\ last.again
    /\ errors[last.field] # <<>>

\* C4: a validate() that returns has called the finish callback exactly once,
\* with the validator's whole error list; a validate() that throws has not
\* called it.
C4_CallbackOnceWithFullList ==
    last.op = "validate" =>
        IF last.threw
        THEN last.calls = <<>>
        ELSE last.calls = <<errors[last.field]>>

C4_Witness ==
    /\ Returned("validate")
    /\ Len(errors[last.field]) = MaxErrors
    /\ last.calls = <<errors[last.field]>>

\* C5: after validate() returns on a value that satisfies every enabled rule,
\* an error list that holds entries of enabled built-in rules only is empty.
C5_Recoverable ==
    (/\ Returned("validate")
     /\ \A m \in EnabledRules(last.field) : ~Fails(last.field, m)
     /\ CheckNamesOf(errors[last.field]) \subseteq EnabledRules(last.field))
        => errors[last.field] = <<>>

\* C6: after hasLength() returns on a value shorter than min, the error list
\* holds exactly one entry named hasLength, and it carries the "too short"
\* message for min.
C6_TooShortOnce ==
    LET f == last.field
        r == validatorRules[f].hasLength
    IN  (Returned("hasLength") /\ Len(input[f].value.str) < r.min)
            => /\ Cardinality(EntriesOf(errors[f], "hasLength")) = 1
               /\ \A i \in EntriesOf(errors[f], "hasLength") :
                      errors[f][i].message =
                          TooShortMessage(r.min, validatorSettings[f].currentLanguage)

\* C7: a customCheck(fn, name, message) that returns appends the one entry
\* {name, message or "<name> check failed"} when fn did not return true, and
\* otherwise removes the entries named name, keeping every other entry, in
\* order.
C7_CustomCheckFrame ==
    [][(last'.op = "customCheck" /\ ~last'.threw)
        => LET f == last'.field
               a == last'.args
               text == IF a.message = NoMessage
                       THEN Message("${checkName} check failed", "", 0, a.name)
                       ELSE a.message
           IN  IF a.fn # "true"
               THEN errors'[f] = Append(errors[f], ErrorEntry(a.name, text))
               ELSE /\ a.name \notin CheckNamesOf(errors'[f])
                    /\ errors'[f] = SelectSeq(errors[f], LAMBDA e : e.checkName # a.name)]_vars

C7_Witness ==
    LET f == last.field
    IN  /\ Returned("customCheck")
        /\ last.args.fn = "false"
        /\ last.args.message # NoMessage
        /\ Len(errors[f]) = 2
        /\ errors[f][1].checkName = "isAlpha"
        /\ errors[f][2] = ErrorEntry(last.args.name, last.args.message)

\* C8: a check method or validate() called while the field is missing or its
\* value is no string throws, writes neither the error list, the validity
\* marker nor the form's map, and calls no callback.
C8_UsageErrorChangesNothing ==
    [][(last'.op \in CheckMethods
            /\ (input[last'.field].typ = "null"
                    \/ input[last'.field].value.typ # "string"))
        => /\ last'.threw
           /\ last'.calls = <<>>
           /\ UNCHANGED <<input, errors, formErrors>>]_vars

C8_Witness ==
    /\ last.op = "validate"
    /\ last.threw
    /\ input[last.field].typ = "element"
    /\ input[last.field].value = NotAString
    /\ errors[last.field] # <<>>

\* C9: isValid is true exactly when the error list is empty, and after a
\* validate() that returns the field's marker is "Valid" exactly when isValid
\* is true and "Invalid" otherwise.
C9_MarkerFollowsIsValid ==
    /\ \A f \in Fields : isValid(errors[f]) <=> errors[f] = <<>>
    /\ Returned("validate") =>
           input[last.field].isValid =
               IF isValid(errors[last.field]) THEN "Valid" ELSE "Invalid"

C9_Witness ==
    /\ Returned("validate")
    /\ errors[last.field] # <<>>
    /\ input[last.field].isValid = "Invalid"

\* C10: a validate() that returns sets the map's entry of its field to the
\* list it delivers and leaves every other entry as it was; no other call adds
\* or replaces an entry (an entry changes otherwise only by a push on the
\* array it holds).
C10_LastWritePerFieldWins ==
    [][LET f == last'.field
       IN  IF last'.op = "validate" /\ ~last'.threw
           THEN /\ formErrors'[f].present
                /\ last'.calls = <<formErrors'[f].list>>
                /\ formErrors'[f].list = errors'[f]
                /\ \A g \in FieldNames \ {f} : formErrors'[g] = formErrors[g]
           ELSE \A g \in FieldNames :
                    /\ formErrors'[g].present = formErrors[g].present
                    /\ g # f => formErrors'[g] = formErrors[g]
                    /\ formErrors'[g].list # formErrors[g].list
                           => /\ formErrors[g].shared
                              /\ formErrors'[g].list = errors'[g]
                              /\ errors'[g] = Append(errors[g], errors'[g][Len(errors'[g])])]_vars

C10_Witness ==
    /\ Returned("validate")
    /\ last.field = "email"
    /\ formErrors["username"].present
    /\ formErrors["username"].list # <<>>
    /\ formErrors["email"].present
    /\ formErrors["email"].list = <<>>

====
